---- MODULE Spec2Model ----
(***************************************************************************)
(* Question-solving pipeline of backend/question_solver: the orchestrator  *)
(* QuestionSolverView (views.py) and the services it calls (web_scraper,   *)
(* search_service, text_processing, confidence_service, youtube_service,   *)
(* ocr_service).                                                           *)
(*                                                                         *)
(* Three state machines share this module:                                 *)
(*   SpecDedup : _deduplicate_results applied once and twice to a list     *)
(*   SpecFetch : one call of WebScraperService.fetch_multiple_urls         *)
(*   Spec      : one request through QuestionSolverView.post               *)
(***************************************************************************)
EXTENDS Integers, Sequences, FiniteSets, TLC

(***************************************************************************)
(* Bounds of the model                                                     *)
(***************************************************************************)
\* longest list of search results handed to _deduplicate_results
MaxLen == 3
\* longest list of urls handed to fetch_multiple_urls
MaxUrls == 3
\* largest max_concurrent handed to fetch_multiple_urls
MaxConc == 3
\* most organic results in one answer of a search provider
MaxHits == 2

(***************************************************************************)
(* Search results.  A result is a dict with the keys title, url, snippet   *)
(* and domain (search_service.py:93-98).  NoKey stands for a dict that has *)
(* no 'url' key at all; "" is an empty url.                                *)
(***************************************************************************)
NoKey == "<no url key>"

Urls == {"https://stackoverflow.com/q1", "https://example.com/s1"}

Titles == {"t1", "t2"}

ResultUniverse ==
    [title : Titles, url : Urls \cup {"", NoKey}]

\* result.get('url', '')
GetUrl(result) ==
    IF result.url = NoKey THEN "" ELSE result.url

Min(a, b) == IF a < b THEN a ELSE b

SeqsUpTo(S, n) ==
    UNION {[1..k -> S] : k \in 0..n}

(***************************************************************************)
(* QuestionSolverView._deduplicate_results: one pass over the list with    *)
(* the set seen_urls and the output list unique_results.                   *)
(***************************************************************************)
\* A loop that tests "url not in seen_urls" only: the first result without
\* a url is kept.
RECURSIVE DedupLoopKeepsEmptyUrl(_, _, _)
DedupLoopKeepsEmptyUrl(results, seen_urls, unique_results) ==
    IF results = <<>>
    THEN unique_results
    ELSE LET result == Head(results)
             url == GetUrl(result)
         IN  IF url \notin seen_urls
             THEN DedupLoopKeepsEmptyUrl(Tail(results), seen_urls \cup {url},
                                         Append(unique_results, result))
             ELSE DedupLoopKeepsEmptyUrl(Tail(results), seen_urls, unique_results)

RECURSIVE DedupLoop(_, _, _)
DedupLoop(results, seen_urls, unique_results) ==
    IF results = <<>>
    THEN unique_results
    ELSE LET result == Head(results)
             url == GetUrl(result)
         IN  IF url # "" /\ url \notin seen_urls
             THEN DedupLoop(Tail(results), seen_urls \cup {url},
                            Append(unique_results, result))
             ELSE DedupLoop(Tail(results), seen_urls, unique_results)

\* A dedup that deletes a repeat from the list it is iterating over: the
\* element that follows a deleted one is skipped by the iteration.
RECURSIVE RemoveWhileIterating(_, _, _)
RemoveWhileIterating(results, i, seen_urls) ==
    IF i > Len(results)
    THEN results
    ELSE LET url == GetUrl(results[i])
         IN  IF url # "" /\ url \notin seen_urls
             THEN RemoveWhileIterating(results, i + 1, seen_urls \cup {url})
             ELSE RemoveWhileIterating(
                      SubSeq(results, 1, i - 1) \o SubSeq(results, i + 1, Len(results)),
                      i + 1, seen_urls)

DedupSkipsAfterRemoval(results) ==
    RemoveWhileIterating(results, 1, {})

\* A dedup through a dict keyed by url: the position is the first
\* occurrence's, the value kept is the last occurrence's.
RECURSIVE LastWithUrl(_, _)
LastWithUrl(results, url) ==
    IF GetUrl(results[Len(results)]) = url
    THEN results[Len(results)]
    ELSE LastWithUrl(SubSeq(results, 1, Len(results) - 1), url)

DedupKeepsLast(results) ==
    LET firsts == DedupLoop(results, {}, <<>>)
    IN  [i \in 1..Len(firsts) |-> LastWithUrl(results, GetUrl(firsts[i]))]

_deduplicate_results(results) ==
    DedupLoop(results, {}, <<>>)

(***************************************************************************)
(* Text normalizer (services/text_processing.py)                           *)
(***************************************************************************)
\* texts a request or the OCR backend can deliver
RawTexts == {"", "2+2", "kya hai"}

\* clean_text: "" for an empty text, else whitespace collapsed, characters
\* outside the allow-list removed, operators spaced, ends trimmed
clean_text(text) ==
    CASE text = "" -> ""
      [] text = "2+2" -> "2 + 2"
      [] OTHER -> text

\* detect_language: 'unknown' for a text of fewer than 3 characters and
\* when the detector raises, else the code the detector gives
DetectedLanguages(text) ==
    IF text = "" THEN {"unknown"} ELSE {"en", "hi"}

\* what GoogleTranslator(source='auto', target='en').translate returns
Translated(text) ==
    IF text = "kya hai" THEN "what is" ELSE text

\* translate_to_english, lines 83-89: the dict returned for an empty text
EmptyTextResult ==
    [success |-> FALSE, translated |-> "", source_lang |-> "",
     translation_needed |-> FALSE,
     keys |-> {"success", "error", "original", "translated"}]

\* lines 94-101
AlreadyEnglishResult(text) ==
    [success |-> TRUE, translated |-> text, source_lang |-> "en",
     translation_needed |-> FALSE,
     keys |-> {"success", "original", "translated", "source_lang",
               "translation_needed"}]

\* lines 107-113
TranslatedResult(text, detected_lang) ==
    [success |-> TRUE, translated |-> Translated(text),
     source_lang |-> detected_lang, translation_needed |-> TRUE,
     keys |-> {"success", "original", "translated", "source_lang",
               "translation_needed"}]

\* lines 115-123: the dict of the except branch; it has no
\* 'translation_needed' key
TranslationFailedResult(text) ==
    [success |-> FALSE, translated |-> text, source_lang |-> "auto",
     translation_needed |-> FALSE,
     keys |-> {"success", "error", "original", "translated", "source_lang"}]

\* translate_to_english(text) with the detector answering detected_lang and
\* the translation service answering (translator_ok) or raising
translate_to_english(text, detected_lang, translator_ok) ==
    IF text = "" THEN EmptyTextResult
    ELSE IF detected_lang = "en" THEN AlreadyEnglishResult(text)
    ELSE IF translator_ok THEN TranslatedResult(text, detected_lang)
    ELSE TranslationFailedResult(text)

\* generate_search_queries(text, max_queries): the first max_queries of
\* text, text + " solution", text + " solved example explanation"
generate_search_queries(text, max_queries) ==
    SubSeq(<< [text |-> text, suffix |-> ""],
              [text |-> text, suffix |-> " solution"],
              [text |-> text, suffix |-> " solved example explanation"] >>,
           1, Min(max_queries, 3))

(***************************************************************************)
(* Search client and trust filter (services/search_service.py)             *)
(***************************************************************************)
\* _extract_domain: urlparse(url).netloc.replace('www.', ''), as the parts
\* of the host name that the trust rules look for
_extract_domain(url) ==
    CASE url = "https://stackoverflow.com/q1" -> <<"stackoverflow.com">>
      [] url = "https://example.com/s1" -> <<"example", ".com">>
      [] url = "https://mit.edu/p" -> <<"mit", ".edu">>
      [] OTHER -> <<>>

\* the dict built from one organic result of the provider (lines 93-98)
Hit(title, url) ==
    [title |-> title, url |-> url, snippet |-> "s",
     domain |-> _extract_domain(url), trust_score |-> -1, is_trusted |-> FALSE,
     scored |-> FALSE]

\* _mock_search_results (lines 273-296): two results with preset
\* trust_score and is_trusted
MockResults ==
    << [title |-> "t1", url |-> "https://example.com/s1", snippet |-> "s",
        domain |-> <<"example", ".com">>, trust_score |-> 50,
        is_trusted |-> FALSE, scored |-> TRUE],
       [title |-> "t2", url |-> "https://stackoverflow.com/q1", snippet |-> "s",
        domain |-> <<"stackoverflow.com">>, trust_score |-> 90,
        is_trusted |-> TRUE, scored |-> TRUE] >>

trusted_domains == {"stackoverflow.com", "geeksforgeeks.org", "khanacademy.org"}

\* A domain is the sequence of the pieces of its host name, cut so that every
\* string the trust rules look for is one piece: 'x in domain' is then "x is a
\* piece of domain".
Contains(domain, part) ==
    \E i \in 1..Len(domain) : domain[i] = part

\* str.lower() on the pieces
Lower(domain) ==
    [i \in 1..Len(domain) |->
        CASE domain[i] = "Learn" -> "learn"
          [] OTHER -> domain[i]]

_calculate_trust_score(domain) ==
    IF domain = <<>> THEN 0
    ELSE IF \E trusted \in trusted_domains : Contains(Lower(domain), trusted) THEN 90
    ELSE IF Contains(domain, ".edu") THEN 80
    ELSE IF Contains(domain, ".gov") \/ Contains(domain, ".ac.") THEN 75
    ELSE IF \E keyword \in {"learn", "study", "education", "tutorial"} :
                Contains(Lower(domain), keyword) THEN 60
    ELSE 40

\* a filter that scores only the results that carry no trust_score yet
ScoredKeepsPreset(result) ==
    IF result.scored THEN result
    ELSE LET trust_score == _calculate_trust_score(result.domain)
         IN  [result EXCEPT !.trust_score = trust_score,
                            !.is_trusted = trust_score > 50,
                            !.scored = TRUE]

\* lines 215-222: every result gets trust_score and is_trusted
Scored(result) ==
    LET trust_score == _calculate_trust_score(result.domain)
    IN  [result EXCEPT !.trust_score = trust_score,
                       !.is_trusted = trust_score > 50,
                       !.scored = TRUE]

\* a sort that places a result before the results of equal trust_score
RECURSIVE InsertBeforeEqual(_, _)
InsertBeforeEqual(sorted, result) ==
    IF sorted = <<>> THEN <<result>>
    ELSE IF Head(sorted).trust_score > result.trust_score
         THEN <<Head(sorted)>> \o InsertBeforeEqual(Tail(sorted), result)
         ELSE <<result>> \o sorted

\* list.sort(key=trust_score, reverse=True): a stable insertion of each
\* element behind the elements that are not smaller
RECURSIVE InsertByTrust(_, _)
InsertByTrust(sorted, result) ==
    IF sorted = <<>> THEN <<result>>
    ELSE IF Head(sorted).trust_score >= result.trust_score
         THEN <<Head(sorted)>> \o InsertByTrust(Tail(sorted), result)
         ELSE <<result>> \o sorted

RECURSIVE SortByTrust(_, _)
SortByTrust(results, sorted) ==
    IF results = <<>> THEN sorted
    ELSE SortByTrust(Tail(results), InsertByTrust(sorted, Head(results)))

filter_trusted_domains(results) ==
    LET filtered == SortByTrust([i \in 1..Len(results) |-> Scored(results[i])], <<>>)
    IN  [results |-> filtered,
         trusted_count |-> Cardinality({i \in 1..Len(filtered) : filtered[i].is_trusted})]

\* answers of a provider request: the list of organic results, or a failure
ProviderHits == {Hit("t1", u) : u \in {"https://stackoverflow.com/q1", ""}}

\* the failure dict (lines 118-122, 172-176); source "none" and warning ""
\* stand for the missing keys
SearchFailed ==
    [success |-> FALSE, results |-> <<>>, source |-> "none", warning |-> ""]

\* search_searchapi / search_serpapi: mock data without the key, else the
\* provider's answer (answer.ok) or the failure dict
search_provider(has_key, source, answer, count) ==
    IF ~has_key
    THEN [success |-> TRUE, results |-> MockResults, source |-> "mock",
          warning |-> "Using mock data - API keys not configured"]
    ELSE IF answer.ok
         THEN [success |-> TRUE,
               results |-> SubSeq(answer.hits, 1, Min(count, Len(answer.hits))),
               source |-> source, warning |-> ""]
         ELSE SearchFailed

\* search(query, count) with prefer_source = 'searchapi' (lines 190-201);
\* first and second are the answers of the first and of the second request
search(searchapi_key, serp_api_key, first, second, count) ==
    IF searchapi_key
    THEN LET result == search_provider(TRUE, "searchapi", first, count)
         IN  IF result.success THEN result
             ELSE search_provider(serp_api_key, "serpapi", second, count)
    ELSE LET result == search_provider(serp_api_key, "serpapi", first, count)
         IN  IF result.success THEN result
             ELSE search_provider(searchapi_key, "searchapi", second, count)

(***************************************************************************)
(* Confidence scorer (services/confidence_service.py).  ocr_confidence is  *)
(* counted in hundredths of a percent (7000 is 70.0), a similarity in      *)
(* ten-thousandths (10000 is 1.0), a score exactly as a fraction num / den *)
(* of a point; the reported numbers are hundredths of a point, rounded as  *)
(* round(x, 2) rounds.                                                     *)
(***************************************************************************)
\* similarities the vectorizer can report: 0.0 and 1.0
Similarities == {0, 10000}

RECURSIVE SumTrust(_)
SumTrust(scores) ==
    IF scores = <<>> THEN 0 ELSE Head(scores) + SumTrust(Tail(scores))

\* round(num / den, 2) in hundredths: to the nearest hundredth, a tie to the
\* even one
RoundHundredths(num, den) ==
    LET q == (100 * num) \div den
        r == (100 * num) % den
    IN  IF 2 * r > den THEN q + 1
        ELSE IF 2 * r = den THEN q + (q % 2)
        ELSE q

\* a match quality that is 0 when there is nothing to compare
MatchDefaultsToZero(search_results, query, similarity) ==
    IF search_results = <<>> \/ query = "" THEN 0
    ELSE IF \A i \in 1..Len(search_results) : search_results[i].snippet = "" THEN 0
    ELSE IF similarity < 0 THEN 0
    ELSE similarity

\* _calculate_match_quality in ten-thousandths: 0.5 without results, without
\* a query, without snippets or when the vectorizer raises (similarity = -1)
_calculate_match_quality(search_results, query, similarity) ==
    IF search_results = <<>> \/ query = "" THEN 5000
    ELSE IF \A i \in 1..Len(search_results) : search_results[i].snippet = "" THEN 5000
    ELSE IF similarity < 0 THEN 5000
    ELSE similarity

\* _calculate_domain_trust as the fraction num / den of 1, den = 100 * the
\* number of trust scores
_calculate_domain_trust(search_results) ==
    LET trust_scores == SelectSeq(search_results, LAMBDA r : r.scored)
    IN  IF search_results = <<>> \/ trust_scores = <<>>
        THEN [num |-> 50, den |-> 100]
        ELSE [num |-> SumTrust([i \in 1..Len(trust_scores) |-> trust_scores[i].trust_score]),
              den |-> 100 * Len(trust_scores)]

\* _get_confidence_grade on the score num / den
_get_confidence_grade(num, den) ==
    IF num >= 90 * den THEN "A+"
    ELSE IF num >= 80 * den THEN "A"
    ELSE IF num >= 70 * den THEN "B"
    ELSE IF num >= 60 * den THEN "C"
    ELSE IF num >= 50 * den THEN "D"
    ELSE "F"

\* _get_reliability_level on the score num / den
_get_reliability_level(num, den) ==
    IF num >= 80 * den THEN "very_high"
    ELSE IF num >= 70 * den THEN "high"
    ELSE IF num >= 60 * den THEN "medium"
    ELSE IF num >= 40 * den THEN "low"
    ELSE "very_low"

ReportKeys == {"overall_confidence", "components", "grade", "reliability"}

\* the dict of the except branch (lines 59-70)
NeutralReport ==
    [keys |-> ReportKeys, overall_confidence |-> 5000,
     components |-> [ocr_confidence |-> 0, match_quality |-> 0, domain_trust |-> 0],
     grade |-> "C", reliability |-> "medium"]

\* the exception lines 37-57 raise, "none" if they raise none: line 37 for an
\* ocr_confidence that is no number (written -1), line 124 for a trust_score
\* that is no number (a result with the key and the value -1)
BodyRaises(ocr_confidence, search_results) ==
    IF ocr_confidence < 0 THEN "TypeError"
    ELSE IF \E i \in 1..Len(search_results) :
                search_results[i].scored /\ search_results[i].trust_score < 0
         THEN "TypeError"
    ELSE "none"

\* an except clause that catches ValueError only
CatchesValueErrorOnly(exc) ==
    exc = "ValueError"

\* "except Exception" (line 59) catches every exception the body raises
except_Exception(exc) ==
    TRUE

\* a scorer whose weights are 30, 50 and 30
OverallWithMatchWeightFifty(ocr_confidence, search_results, original_query, similarity) ==
    IF BodyRaises(ocr_confidence, search_results) # "none" THEN NeutralReport
    ELSE LET match == _calculate_match_quality(search_results, original_query, similarity)
             trust == _calculate_domain_trust(search_results)
             den == 100 * trust.den
             num == (30 * ocr_confidence + 50 * match) * (trust.den \div 100)
                        + 3000 * trust.num
         IN  [keys |-> ReportKeys,
              overall_confidence |-> RoundHundredths(num, den),
              components |-> [ocr_confidence |-> RoundHundredths(30 * ocr_confidence, 10000),
                              match_quality |-> RoundHundredths(50 * match, 10000),
                              domain_trust |-> RoundHundredths(30 * trust.num, trust.den)],
              grade |-> _get_confidence_grade(num, den),
              reliability |-> _get_reliability_level(num, den)]

\* calculate_overall_confidence when it returns: the report of lines 48-57,
\* or the report of the except branch
calculate_overall_confidence(ocr_confidence, search_results, original_query, similarity) ==
    IF BodyRaises(ocr_confidence, search_results) # "none" THEN NeutralReport
    ELSE LET match == _calculate_match_quality(search_results, original_query, similarity)
             trust == _calculate_domain_trust(search_results)
             \* overall = ocr/100*30 + match*40 + trust*30 = num / den
             den == 100 * trust.den
             num == (30 * ocr_confidence + 40 * match) * (trust.den \div 100)
                        + 3000 * trust.num
         IN  [keys |-> ReportKeys,
              overall_confidence |-> RoundHundredths(num, den),
              components |-> [ocr_confidence |-> RoundHundredths(30 * ocr_confidence, 10000),
                              match_quality |-> RoundHundredths(40 * match, 10000),
                              domain_trust |-> RoundHundredths(30 * trust.num, trust.den)],
              grade |-> _get_confidence_grade(num, den),
              reliability |-> _get_reliability_level(num, den)]

(***************************************************************************)
(* Video lookup (services/youtube_service.py)                              *)
(***************************************************************************)
\* search_concept_videos: the videos found (or the mock videos without an
\* API key), or the failure dict of its except branch
VideoAnswers ==
    {[success |-> TRUE, videos |-> <<"video_1">>],
     [success |-> FALSE, videos |-> <<>>]}

(***************************************************************************)
(* State                                                                   *)
(***************************************************************************)
VARIABLES
    dd_pc,      \* SpecDedup: "in", "once", "twice"
    dd_in,      \* SpecDedup: the list handed to _deduplicate_results
    dd_once,    \* SpecDedup: _deduplicate_results(dd_in)
    dd_twice,   \* SpecDedup: _deduplicate_results(dd_once)
    f_pc,       \* SpecFetch: position of the caller in fetch_multiple_urls
    f_urls,     \* SpecFetch: argument urls
    f_max,      \* SpecFetch: argument max_concurrent
    f_fut,      \* SpecFetch: state of the future of each submitted url
    f_yielded,  \* SpecFetch: futures as_completed has handed to the loop body
    f_results,  \* SpecFetch: the list results
    f_timeout,  \* SpecFetch: futures not finished when the batch timeout fired
    settings,           \* Spec: which API keys the settings hold
    pc,                 \* Spec: position of the request in post
    request,            \* Spec: the request (kind, text, max_results)
    temp_file,          \* Spec: the saved upload exists in default_storage
    saved,              \* Spec: the upload was saved by this request
    ocr_result,         \* Spec: dict returned by extract_text_from_image
    translation_result, \* Spec: dict returned by translate_to_english
    query_text,         \* Spec: local query_text
    search_result,      \* Spec: dict returned by search_service.search
    search_calls,       \* Spec: arguments of the search_service.search calls
    filtered_results,   \* Spec: dict returned by filter_trusted_domains
    fut,                \* Spec: state of the three futures of the fan-out
    fut_value,          \* Spec: what each future returned
    order,              \* Spec: the futures in the order as_completed yielded them
    scraped_content,    \* Spec: local scraped_content
    youtube_results,    \* Spec: local youtube_results
    confidence_data,    \* Spec: local confidence_data
    timed_out,          \* Spec: the 3 s of the fan-out wait are over
    response,           \* Spec: the Response post returns
    stages,             \* Spec: the pipeline stages run so far, in order
    t_pc,       \* SpecTrust: "in", "filtered"
    t_in,       \* SpecTrust: the list handed to filter_trusted_domains
    t_out,      \* SpecTrust: the dict filter_trusted_domains returned
    c_pc,       \* SpecConf: "in", "returned", "raised"
    c_in,       \* SpecConf: arguments of calculate_overall_confidence
    c_out,      \* SpecConf: the report calculate_overall_confidence returned
    s_pc,       \* SpecSearch: "ready", "done"
    s_keys,     \* SpecSearch: which API keys the settings hold
    s_cache,    \* SpecSearch: entries of search_cache
    s_calls,    \* SpecSearch: number of search() calls made so far
    s_call,     \* SpecSearch: the last search() call, its requests and result
    oc_pc,      \* SpecOcr: position in extract_text_from_image
    oc_env,     \* SpecOcr: the Vision key of the settings, Tesseract installed
    oc_image,   \* SpecOcr: the file at image_path
    oc_service, \* SpecOcr: the flags of the OCRService instance
    oc_cache,   \* SpecOcr: entries of ocr_cache
    oc_tried,   \* SpecOcr: the backends tried in this call, in order
    oc_result,  \* SpecOcr: the dict extract_text_from_image returned
    oc_calls,   \* SpecOcr: number of calls made so far
    v_pc,       \* SpecScorer: position of each request in _calculate_match_quality
    v_in,       \* SpecScorer: the texts of each request
    v_fitted,   \* SpecScorer: whose matrix the shared vectorizer is fitted to
    v_out,      \* SpecScorer: the match quality each request got
    g_pc,       \* SpecGate: position of each request in the wrapper
    g_row,      \* SpecGate: ask_question_used of the subscription row
    g_local,    \* SpecGate: ask_question_used of each request's model instance
    g_admitted  \* SpecGate: number of requests that reached post

dd_vars == <<dd_pc, dd_in, dd_once, dd_twice>>

f_vars == <<f_pc, f_urls, f_max, f_fut, f_yielded, f_results, f_timeout>>

o_vars == <<settings, pc, request, temp_file, saved, ocr_result, translation_result,
           query_text, search_result, search_calls, filtered_results, fut, fut_value, order,
           scraped_content, youtube_results, confidence_data, timed_out, response,
           stages>>

t_vars == <<t_pc, t_in, t_out>>

c_vars == <<c_pc, c_in, c_out>>

s_vars == <<s_pc, s_keys, s_cache, s_calls, s_call>>

\* the state of the services checked on their own
oc_vars == <<oc_pc, oc_env, oc_image, oc_service, oc_cache, oc_tried, oc_result, oc_calls>>

v_vars == <<v_pc, v_in, v_fitted, v_out>>

g_vars == <<g_pc, g_row, g_local, g_admitted>>

svc_vars == <<t_vars, c_vars, s_vars, oc_vars, v_vars, g_vars>>

vars == <<dd_vars, f_vars, o_vars, svc_vars>>

(***************************************************************************)
(* Values of the orchestrator's state before a stage has set them          *)
(***************************************************************************)
Branches == {"scrape", "youtube", "confidence"}

NoOcr == [success |-> FALSE, text |-> "", confidence |-> 0]

NoTranslation ==
    [success |-> FALSE, translated |-> "", source_lang |-> "",
     translation_needed |-> FALSE, keys |-> {}]

NoFiltered == [results |-> <<>>, trusted_count |-> 0]

\* line 139 / 247: confidence_data = {'overall': 0, 'factors': {}}
ConfidencePlaceholder ==
    [keys |-> {"overall", "factors"}, overall_confidence |-> 0,
     components |-> [ocr_confidence |-> 0, match_quality |-> 0, domain_trust |-> 0],
     grade |-> "", reliability |-> ""]

\* line 138 / 246: youtube_results = {'videos': []}
YoutubePlaceholder == [success |-> FALSE, videos |-> <<>>]

NoFutures == [b \in Branches |-> "none"]

NoValues ==
    [scrape |-> <<>>, youtube |-> YoutubePlaceholder, confidence |-> ConfidencePlaceholder]

NoResponse ==
    [status |-> 0, success |-> FALSE, error |-> "", assembled |-> FALSE,
     web_content |-> <<>>, youtube_videos |-> <<>>,
     confidence |-> ConfidencePlaceholder, total |-> 0]

OrchIdle ==
    /\ settings = [searchapi_key |-> FALSE, serp_api_key |-> FALSE]
    /\ pc = "idle"
    /\ request = [kind |-> "none", text |-> "", max_results |-> "absent"]
    /\ temp_file = FALSE
    /\ saved = FALSE
    /\ ocr_result = NoOcr
    /\ translation_result = NoTranslation
    /\ query_text = ""
    /\ search_result = SearchFailed
    /\ search_calls = <<>>
    /\ filtered_results = NoFiltered
    /\ fut = NoFutures
    /\ fut_value = NoValues
    /\ order = <<>>
    /\ scraped_content = <<>>
    /\ youtube_results = YoutubePlaceholder
    /\ confidence_data = ConfidencePlaceholder
    /\ timed_out = FALSE
    /\ response = NoResponse
    /\ stages = <<>>

\* the state of the three service machines while another machine runs
NoCall ==
    [query |-> "", count |-> 0, requests |-> <<>>, cache_hit |-> FALSE,
     result |-> SearchFailed]

NoReport ==
    [keys |-> {}, overall_confidence |-> 0,
     components |-> [ocr_confidence |-> 0, match_quality |-> 0, domain_trust |-> 0],
     grade |-> "", reliability |-> ""]

TrustIdle ==
    /\ t_pc = "idle"
    /\ t_in = <<>>
    /\ t_out = NoFiltered

ConfIdle ==
    /\ c_pc = "idle"
    /\ c_in = [ocr_confidence |-> 0, search_results |-> <<>>, original_query |-> "",
               similarity |-> 0]
    /\ c_out = NoReport

SearchIdle ==
    /\ s_pc = "idle"
    /\ s_keys = [searchapi_key |-> FALSE, serp_api_key |-> FALSE]
    /\ s_cache = {}
    /\ s_calls = 0
    /\ s_call = NoCall

\* the dict of the except branches of the OCR service (lines 124-130,
\* 268-273)
OcrFailure ==
    [success |-> FALSE, text |-> "", confidence |-> 0, method |-> "none",
     keys |-> {"success", "error", "text", "confidence"}]

OcrIdle ==
    /\ oc_pc = "idle"
    /\ oc_env = [vision_key |-> "", tesseract_installed |-> FALSE]
    /\ oc_image = [exists |-> FALSE, readable |-> FALSE, text |-> ""]
    /\ oc_service = [google_vision_available |-> FALSE, easyocr_available |-> FALSE]
    /\ oc_cache = {}
    /\ oc_tried = <<>>
    /\ oc_result = OcrFailure
    /\ oc_calls = 0

ScorerIdle ==
    /\ v_pc = <<>>
    /\ v_in = <<>>
    /\ v_fitted = 0
    /\ v_out = <<>>

GateIdle ==
    /\ g_pc = <<>>
    /\ g_row = 0
    /\ g_local = <<>>
    /\ g_admitted = 0

(***************************************************************************)
(* SpecDedup                                                               *)
(***************************************************************************)
DedupIdle ==
    /\ dd_pc = "idle"
    /\ dd_in = <<>>
    /\ dd_once = <<>>
    /\ dd_twice = <<>>

FetchIdle ==
    /\ f_pc = "idle"
    /\ f_urls = <<>>
    /\ f_max = 0
    /\ f_fut = <<>>
    /\ f_yielded = {}
    /\ f_results = <<>>
    /\ f_timeout = {}

InitDedup ==
    /\ dd_pc = "in"
    /\ dd_in \in SeqsUpTo(ResultUniverse, MaxLen)
    /\ dd_once = <<>>
    /\ dd_twice = <<>>
    /\ FetchIdle
    /\ OrchIdle
    /\ TrustIdle
    /\ ConfIdle
    /\ SearchIdle
    /\ OcrIdle
    /\ ScorerIdle
    /\ GateIdle

DedupOnce ==
    /\ dd_pc = "in"
    /\ dd_once' = _deduplicate_results(dd_in)
    /\ dd_pc' = "once"
    /\ UNCHANGED <<dd_in, dd_twice, f_vars, o_vars, svc_vars>>

DedupTwice ==
    /\ dd_pc = "once"
    /\ dd_twice' = _deduplicate_results(dd_once)
    /\ dd_pc' = "twice"
    /\ UNCHANGED <<dd_in, dd_once, f_vars, o_vars, svc_vars>>

NextDedup ==
    \/ DedupOnce
    \/ DedupTwice

SpecDedup == InitDedup /\ [][NextDedup]_vars

(***************************************************************************)
(* SpecFetch: WebScraperService.fetch_multiple_urls(urls, max_concurrent)  *)
(*                                                                         *)
(* f_fut[i] is the future of urls_to_fetch[i]: "queued" until a pool       *)
(* worker takes it, "running" inside fetch_url_content, then "ok" or       *)
(* "failed" (fetch_url_content returns a dict either way: it catches every *)
(* exception of the request and of the parsing).                           *)
(***************************************************************************)
FetchUrls == {"https://stackoverflow.com/q1", "https://example.com/s1",
              "https://mit.edu/p"}

\* ThreadPoolExecutor(max_workers=min(max_concurrent, 5))
PoolCap == 5

\* urls[:max_concurrent], max_concurrent >= 0
SliceTo(urls, n) ==
    SubSeq(urls, 1, Min(n, Len(urls)))

urls_to_fetch(urls, max_concurrent) ==
    SliceTo(urls, max_concurrent)

Finished(i) == f_fut[i] \in {"ok", "failed"}

\* the dict fetch_url_content returns for the future i
FetchedPage(i) ==
    [url |-> f_urls[i], success |-> (f_fut[i] = "ok")]

InitFetch ==
    /\ f_pc = "call"
    /\ f_urls \in SeqsUpTo(FetchUrls, MaxUrls)
    /\ f_max \in 0..MaxConc
    /\ f_fut = <<>>
    /\ f_yielded = {}
    /\ f_results = <<>>
    /\ f_timeout = {}
    /\ DedupIdle
    /\ OrchIdle
    /\ TrustIdle
    /\ ConfIdle
    /\ SearchIdle
    /\ OcrIdle
    /\ ScorerIdle
    /\ GateIdle

\* lines 109-117: the pool is created and every url of the slice submitted;
\* ThreadPoolExecutor raises ValueError when max_workers <= 0
FetchSubmit ==
    /\ f_pc = "call"
    /\ IF Min(f_max, PoolCap) <= 0
       THEN /\ f_pc' = "raised"
            /\ UNCHANGED f_fut
       ELSE /\ f_pc' = "collecting"
            /\ f_fut' = [i \in 1..Len(urls_to_fetch(f_urls, f_max)) |-> "queued"]
    /\ UNCHANGED <<f_urls, f_max, f_yielded, f_results, f_timeout, dd_vars, o_vars, svc_vars>>

\* a free worker of the pool takes a queued task
WorkerStart(i) ==
    /\ f_pc \in {"collecting", "draining"}
    /\ f_fut[i] = "queued"
    /\ Cardinality({j \in DOMAIN f_fut : f_fut[j] = "running"}) < Min(f_max, PoolCap)
    /\ f_fut' = [f_fut EXCEPT ![i] = "running"]
    /\ UNCHANGED <<f_pc, f_urls, f_max, f_yielded, f_results, f_timeout, dd_vars, o_vars, svc_vars>>

\* fetch_url_content returns: the page, or the failure dict of its handlers
WorkerFinish(i) ==
    /\ f_pc \in {"collecting", "draining"}
    /\ f_fut[i] = "running"
    /\ \E outcome \in {"ok", "failed"} :
          f_fut' = [f_fut EXCEPT ![i] = outcome]
    /\ UNCHANGED <<f_pc, f_urls, f_max, f_yielded, f_results, f_timeout, dd_vars, o_vars, svc_vars>>

\* lines 120-123: as_completed yields a finished future, the body appends
\* its result
FetchCollect(i) ==
    /\ f_pc = "collecting"
    /\ Finished(i)
    /\ i \notin f_yielded
    /\ f_yielded' = f_yielded \cup {i}
    /\ f_results' = Append(f_results, FetchedPage(i))
    /\ UNCHANGED <<f_pc, f_urls, f_max, f_fut, f_timeout, dd_vars, o_vars, svc_vars>>

\* line 120: the 2.5 s of as_completed are over while a future has not been
\* yielded: as_completed raises TimeoutError in the for statement, outside
\* the try of the loop body; leaving the with block waits for the workers.
\* f_timeout keeps the futures that were not finished at that moment.
FetchBatchTimeout ==
    /\ f_pc = "collecting"
    /\ \E i \in DOMAIN f_fut : i \notin f_yielded
    /\ f_timeout' = {i \in DOMAIN f_fut : ~Finished(i)}
    /\ f_pc' = "draining"
    /\ UNCHANGED <<f_urls, f_max, f_fut, f_yielded, f_results, dd_vars, o_vars, svc_vars>>

\* lines 115, 120: executor shutdown is over, the TimeoutError leaves
\* fetch_multiple_urls
FetchRaise ==
    /\ f_pc = "draining"
    /\ \A i \in DOMAIN f_fut : Finished(i)
    /\ f_pc' = "raised"
    /\ UNCHANGED <<f_urls, f_max, f_fut, f_yielded, f_results, f_timeout, dd_vars, o_vars, svc_vars>>

\* line 135
FetchReturn ==
    /\ f_pc = "collecting"
    /\ f_yielded = DOMAIN f_fut
    /\ f_pc' = "returned"
    /\ UNCHANGED <<f_urls, f_max, f_fut, f_yielded, f_results, f_timeout, dd_vars, o_vars, svc_vars>>

NextFetch ==
    \/ FetchSubmit
    \/ \E i \in DOMAIN f_fut : WorkerStart(i)
    \/ \E i \in DOMAIN f_fut : WorkerFinish(i)
    \/ \E i \in DOMAIN f_fut : FetchCollect(i)
    \/ FetchBatchTimeout
    \/ FetchRaise
    \/ FetchReturn

SpecFetch == InitFetch /\ [][NextFetch]_vars

(***************************************************************************)
(* Spec: one request through QuestionSolverView.post (views.py:44-302).    *)
(* A step is one stage of the pipeline with the outcome of the external    *)
(* call it makes.  In the fan-out a step is the end of one future together *)
(* with the loop body that as_completed runs for it: the body only assigns *)
(* that future's local, so running it right when the future ends gives the *)
(* same results as running it later.                                       *)
(***************************************************************************)
\* request.data.get('max_results', 5) as sent by the client
MaxResultsParams == {"absent", "1", "abc"}

Requests ==
    {[kind |-> "none", text |-> "", max_results |-> "absent"]}
    \cup [kind : {"image"}, text : {""}, max_results : MaxResultsParams]
    \cup [kind : {"text"}, text : RawTexts, max_results : MaxResultsParams]

\* int(request.data.get('max_results', 5)): ok = FALSE when int raises
ParseMaxResults(param) ==
    CASE param = "absent" -> [ok |-> TRUE, value |-> 5]
      [] param = "1" -> [ok |-> TRUE, value |-> 1]
      [] OTHER -> [ok |-> FALSE, value |-> 0]

\* what extract_text_from_image returns: Tesseract's text with the
\* estimated confidence 70 (7000 hundredths of a percent), or the failure dict
OcrAnswers ==
    {[success |-> TRUE, text |-> t, confidence |-> 7000] : t \in RawTexts}
    \cup {[success |-> FALSE, text |-> "", confidence |-> 0]}

ProviderAnswers ==
    {[ok |-> TRUE, hits |-> h] : h \in SeqsUpTo(ProviderHits, MaxHits)}
    \cup {[ok |-> FALSE, hits |-> <<>>]}

Perms(n) ==
    {p \in [1..n -> 1..n] : \A i, j \in 1..n : i # j => p[i] # p[j]}

\* the lists fetch_multiple_urls(urls, max_concurrent) can return: one
\* FetchedPage per url of the slice, in completion order
FetchReturns(urls, max_concurrent) ==
    LET u == urls_to_fetch(urls, max_concurrent)
        n == Len(u)
    IN  {[k \in 1..n |-> [url |-> u[p[k]], success |-> ok[p[k]]]] :
            p \in Perms(n), ok \in [1..n -> BOOLEAN]}

\* a finally that leaves the upload in storage
CleanupForgotten(exists) ==
    exists

\* the finally of _process_image (lines 205-208): whether the file exists
\* after "if default_storage.exists(file_name): default_storage.delete(file_name)"
finally_cleanup(exists) ==
    FALSE

\* Response(body, status) for the three error bodies of post
ErrorResponse(status, error) ==
    [NoResponse EXCEPT !.status = status, !.error = error]

Init ==
    /\ settings \in [searchapi_key : BOOLEAN, serp_api_key : BOOLEAN]
    /\ pc = "received"
    /\ request \in Requests
    /\ temp_file = FALSE
    /\ saved = FALSE
    /\ ocr_result = NoOcr
    /\ translation_result = NoTranslation
    /\ query_text = ""
    /\ search_result = SearchFailed
    /\ search_calls = <<>>
    /\ filtered_results = NoFiltered
    /\ fut = NoFutures
    /\ fut_value = NoValues
    /\ order = <<>>
    /\ scraped_content = <<>>
    /\ youtube_results = YoutubePlaceholder
    /\ confidence_data = ConfidencePlaceholder
    /\ timed_out = FALSE
    /\ response = NoResponse
    /\ stages = <<>>
    /\ DedupIdle
    /\ FetchIdle
    /\ TrustIdle
    /\ ConfIdle
    /\ SearchIdle
    /\ OcrIdle
    /\ ScorerIdle
    /\ GateIdle

\* a dispatch that takes every request without an image for a text request
RouteDefaultsToText(kind) ==
    IF kind = "image" THEN "_process_image" ELSE "_process_text"

\* the dispatch of post (lines 57-64) on what the request carries
route(kind) ==
    IF kind = "image" THEN "_process_image"
    ELSE IF kind = "text" THEN "_process_text"
    ELSE "reject"

\* a text pipeline that hands the scorer no OCR confidence
TextScoredWithoutOcrConfidence(kind, ocr) ==
    IF kind = "image" THEN ocr.confidence ELSE 0

\* the first argument of calculate_overall_confidence: ocr_confidence of
\* the OCR result (lines 98 and 148), the literal 100 for a text (line 255)
scorer_ocr_confidence(kind, ocr) ==
    IF kind = "image" THEN ocr.confidence ELSE 10000

\* post, lines 55-64 and 68-73, with the first lines of _process_image
\* (76-81) and of _process_text (214-215)
Post ==
    /\ pc = "received"
    /\ IF route(request.kind) = "reject"
       THEN /\ response' = ErrorResponse(400, "Please provide either an image or text query")
            /\ pc' = "responded"
            /\ UNCHANGED <<temp_file, saved>>
       ELSE IF ~ParseMaxResults(request.max_results).ok
       THEN /\ response' = ErrorResponse(500, "Internal server error")
            /\ pc' = "responded"
            /\ UNCHANGED <<temp_file, saved>>
       ELSE IF route(request.kind) = "_process_image"
       THEN /\ temp_file' = TRUE
            /\ saved' = TRUE
            /\ pc' = "ocr"
            /\ UNCHANGED response
       ELSE /\ pc' = "normalize"
            /\ UNCHANGED <<response, temp_file, saved>>
    /\ UNCHANGED <<settings, request, ocr_result, translation_result, query_text,
                   search_result, search_calls, filtered_results, fut, fut_value, order,
                   scraped_content, youtube_results, confidence_data, timed_out,
                   stages, dd_vars, f_vars, svc_vars>>

\* _process_image, lines 84-98; on success = False the return of lines 92-95
\* runs the finally and post answers Response(result, HTTP_200_OK) (line 66)
Ocr ==
    /\ pc = "ocr"
    /\ \E answer \in OcrAnswers :
          /\ ocr_result' = answer
          /\ IF ~answer.success
             THEN /\ temp_file' = finally_cleanup(temp_file)
                  /\ response' = ErrorResponse(200, "OCR extraction failed")
                  /\ pc' = "responded"
             ELSE /\ pc' = "normalize"
                  /\ UNCHANGED <<temp_file, response>>
    /\ stages' = Append(stages, "ocr")
    /\ UNCHANGED <<settings, request, saved, translation_result, query_text,
                   search_result, search_calls, filtered_results, fut, fut_value, order,
                   scraped_content, youtube_results, confidence_data, timed_out,
                   dd_vars, f_vars, svc_vars>>

\* lines 100-112 (image) and 217-224 (text): clean_text, translate_to_english
Normalize ==
    /\ pc = "normalize"
    /\ LET cleaned_text == clean_text(IF request.kind = "image"
                                      THEN ocr_result.text ELSE request.text)
       IN  \E detected_lang \in DetectedLanguages(cleaned_text), translator_ok \in BOOLEAN :
              LET result == translate_to_english(cleaned_text, detected_lang, translator_ok)
              IN  /\ translation_result' = result
                  /\ query_text' = IF request.kind = "image" /\ ~result.success
                                   THEN cleaned_text
                                   ELSE result.translated
    /\ pc' = "search"
    /\ stages' = Append(stages, "normalize")
    /\ UNCHANGED <<settings, request, temp_file, saved, ocr_result, search_result,
                   search_calls,
                   filtered_results, fut, fut_value, order, scraped_content,
                   youtube_results, confidence_data, timed_out, response,
                   dd_vars, f_vars, svc_vars>>

\* lines 114-151 (image) and 226-258 (text): the one search, dedup, trust
\* filter, and the submission of the three futures
Search ==
    /\ pc = "search"
    /\ \E first \in ProviderAnswers, second \in ProviderAnswers :
          LET count == Min(ParseMaxResults(request.max_results).value, 5)
              result == search(settings.searchapi_key, settings.serp_api_key,
                               first, second, count)
              all_results == IF result.success THEN result.results ELSE <<>>
              unique_results == _deduplicate_results(all_results)
              search_queries == generate_search_queries(query_text, 1)
              primary_query == IF search_queries # <<>> THEN search_queries[1]
                               ELSE [text |-> query_text, suffix |-> ""]
          IN  /\ search_result' = result
              /\ search_calls' = Append(search_calls,
                                        [query |-> primary_query, count |-> count])
              /\ filtered_results' = filter_trusted_domains(unique_results)
    /\ fut' = [b \in Branches |-> "running"]
    /\ pc' = "fanout"
    /\ stages' = stages \o <<"search", "filter", "fanout">>
    /\ UNCHANGED <<settings, request, temp_file, saved, ocr_result,
                   translation_result, query_text, fut_value, order,
                   scraped_content, youtube_results, confidence_data, timed_out,
                   response, dd_vars, f_vars, svc_vars>>

\* top_urls and max_concurrent of line 143-144 (image) and 250-251 (text)
TopN == IF request.kind = "image" THEN 2 ELSE 3

top_urls ==
    LET top == SubSeq(filtered_results.results, 1,
                      Min(TopN, Len(filtered_results.results)))
    IN  [i \in 1..Len(top) |-> top[i].url]

\* a future ends and as_completed yields it to the loop body
Collected(b, state) ==
    /\ fut' = [fut EXCEPT ![b] = state]
    /\ order' = Append(order, b)

\* scrape_future: fetch_multiple_urls returns its list (lines 156-158), or
\* the future ends with an exception (lines 165-170: only logged)
ScrapeDone ==
    /\ pc = "fanout"
    /\ fut["scrape"] = "running"
    /\ \/ \E pages \in FetchReturns(top_urls, TopN) :
             /\ scraped_content' = pages
             /\ fut_value' = [fut_value EXCEPT !["scrape"] = pages]
             /\ Collected("scrape", "returned")
       \/ /\ Collected("scrape", "raised")
          /\ UNCHANGED <<scraped_content, fut_value>>
    /\ UNCHANGED <<settings, pc, request, temp_file, saved, ocr_result,
                   translation_result, query_text, search_result, search_calls, filtered_results,
                   youtube_results, confidence_data, timed_out, response, stages,
                   dd_vars, f_vars, svc_vars>>

\* youtube_future: search_concept_videos returns (lines 159-161), or the
\* future ends with an exception (lines 166-168)
YoutubeDone ==
    /\ pc = "fanout"
    /\ fut["youtube"] = "running"
    /\ \/ \E answer \in VideoAnswers :
             /\ youtube_results' = answer
             /\ fut_value' = [fut_value EXCEPT !["youtube"] = answer]
             /\ Collected("youtube", "returned")
       \/ /\ youtube_results' = [success |-> FALSE, videos |-> <<>>]
          /\ Collected("youtube", "raised")
          /\ UNCHANGED fut_value
    /\ UNCHANGED <<settings, pc, request, temp_file, saved, ocr_result,
                   translation_result, query_text, search_result, search_calls, filtered_results,
                   scraped_content, confidence_data, timed_out, response, stages,
                   dd_vars, f_vars, svc_vars>>

\* confidence_future: calculate_overall_confidence returns (lines 162-164),
\* or the future ends with an exception (lines 169-170: only logged)
ConfidenceDone ==
    /\ pc = "fanout"
    /\ fut["confidence"] = "running"
    /\ \/ \E similarity \in Similarities \cup {-1} :
             LET report == calculate_overall_confidence(
                               scorer_ocr_confidence(request.kind, ocr_result),
                               filtered_results.results, query_text, similarity)
             IN  /\ confidence_data' = report
                 /\ fut_value' = [fut_value EXCEPT !["confidence"] = report]
                 /\ Collected("confidence", "returned")
       \/ /\ Collected("confidence", "raised")
          /\ UNCHANGED <<confidence_data, fut_value>>
    /\ UNCHANGED <<settings, pc, request, temp_file, saved, ocr_result,
                   translation_result, query_text, search_result, search_calls, filtered_results,
                   scraped_content, youtube_results, timed_out, response, stages,
                   dd_vars, f_vars, svc_vars>>

\* 3 s (the timeout given to future.result, lines 157-163) have passed
\* since the futures were submitted and one of them is still running;
\* as_completed is called without a timeout (lines 154 and 261) and goes on
\* waiting
AggregateTimeoutElapses ==
    /\ pc = "fanout"
    /\ \E b \in Branches : fut[b] = "running"
    /\ ~timed_out
    /\ timed_out' = TRUE
    /\ UNCHANGED <<settings, pc, request, temp_file, saved, ocr_result,
                   translation_result, query_text, search_result, search_calls, filtered_results,
                   fut, fut_value, order, scraped_content, youtube_results,
                   confidence_data, response, stages, dd_vars, f_vars, svc_vars>>

\* the for loop over as_completed and the with block are over: every
\* future has been yielded
FanoutOver ==
    \A b \in Branches : fut[b] \in {"returned", "raised"}

\* the keys of translation_result that building the result dict reads
\* (lines 184 and 285-286)
KeysRead ==
    IF request.kind = "image"
    THEN {"translation_needed"}
    ELSE {"translation_needed", "source_lang"}

\* lines 171-208 (image) and 279-302 (text), then post lines 66-73: the
\* with block is left, the file deleted, the result dict built; a KeyError
\* of the dict goes through the finally to the except of post
Assemble ==
    /\ pc = "fanout"
    /\ FanoutOver
    /\ temp_file' = IF request.kind = "image" THEN finally_cleanup(FALSE) ELSE temp_file
    /\ IF KeysRead \subseteq translation_result.keys
       THEN response' = [status |-> 200, success |-> TRUE, error |-> "",
                         assembled |-> TRUE,
                         web_content |-> scraped_content,
                         youtube_videos |-> youtube_results.videos,
                         confidence |-> confidence_data,
                         total |-> Len(filtered_results.results)]
       ELSE response' = ErrorResponse(500, "Internal server error")
    /\ pc' = "responded"
    /\ UNCHANGED <<settings, request, saved, ocr_result, translation_result,
                   query_text, search_result, search_calls, filtered_results, fut, fut_value,
                   order, scraped_content, youtube_results, confidence_data,
                   timed_out, stages, dd_vars, f_vars, svc_vars>>

Next ==
    \/ Post
    \/ Ocr
    \/ Normalize
    \/ Search
    \/ ScrapeDone
    \/ YoutubeDone
    \/ ConfidenceDone
    \/ AggregateTimeoutElapses
    \/ Assemble

Spec == Init /\ [][Next]_vars

(***************************************************************************)
(* SpecTrust: filter_trusted_domains called on a list of results           *)
(***************************************************************************)
\* host names of results: "", stackoverflow.com, mit.edu, nasa.gov, ox.ac.uk,
\* Learnpython.org, example.com, mit.edu.evil.com, stackoverflow.com.evil.net
Domains ==
    { <<>>, <<"stackoverflow.com">>, <<"mit", ".edu">>, <<"nasa", ".gov">>,
      <<"ox", ".ac.", "uk">>, <<"Learn", "python.org">>, <<"example", ".com">>,
      <<"mit", ".edu", ".evil.com">>, <<"stackoverflow.com", ".evil.net">> }

\* a result dict as a provider builds it (lines 93-98), with the given domain
ResultWithDomain(title, domain) ==
    [title |-> title, url |-> "u", snippet |-> "s", domain |-> domain,
     trust_score |-> -1, is_trusted |-> FALSE, scored |-> FALSE]

\* the results the filter is handed: provider results of every domain, two
\* further results of domains that are already there, and the mock results
TrustInputs ==
    {ResultWithDomain("t1", d) : d \in Domains}
        \cup {ResultWithDomain("t2", d) : d \in {<<"example", ".com">>, <<"nasa", ".gov">>}}
        \cup {MockResults[i] : i \in 1..Len(MockResults)}

InitTrust ==
    /\ t_pc = "in"
    /\ t_in \in SeqsUpTo(TrustInputs, MaxLen)
    /\ t_out = NoFiltered
    /\ DedupIdle
    /\ FetchIdle
    /\ OrchIdle
    /\ ConfIdle
    /\ SearchIdle
    /\ OcrIdle
    /\ ScorerIdle
    /\ GateIdle

FilterTrusted ==
    /\ t_pc = "in"
    /\ t_out' = filter_trusted_domains(t_in)
    /\ t_pc' = "filtered"
    /\ UNCHANGED <<t_in, dd_vars, f_vars, o_vars, c_vars, s_vars,
                   oc_vars, v_vars, g_vars>>

NextTrust ==
    FilterTrusted

SpecTrust == InitTrust /\ [][NextTrust]_vars

(***************************************************************************)
(* SpecConf: calculate_overall_confidence called on its own                *)
(***************************************************************************)
\* results handed to the scorer: filtered results of trust_score 100 and 0,
\* a result without trust_score and without snippet, and a result whose
\* trust_score is no number
ConfResults ==
    { [ResultWithDomain("t1", <<"stackoverflow.com">>) EXCEPT
           !.trust_score = 100, !.is_trusted = TRUE, !.scored = TRUE],
      [ResultWithDomain("t1", <<>>) EXCEPT !.trust_score = 0, !.scored = TRUE],
      [ResultWithDomain("t2", <<"example", ".com">>) EXCEPT !.snippet = ""],
      [ResultWithDomain("t2", <<"example", ".com">>) EXCEPT
           !.trust_score = -1, !.scored = TRUE] }

\* ocr_confidence: no number, 0, 87.41, 99.99 and 100; similarity of the query to
\* the snippets: the vectorizer raises, 0, 0.3001 and 1
ConfInputs ==
    [ocr_confidence : {-1, 0, 8741, 9999, 10000},
     search_results : SeqsUpTo(ConfResults, MaxHits),
     original_query : {"", "q"},
     similarity : {-1, 0, 3001, 10000}]

InitConf ==
    /\ c_pc = "in"
    /\ c_in \in ConfInputs
    /\ c_out = NoReport
    /\ DedupIdle
    /\ FetchIdle
    /\ OrchIdle
    /\ TrustIdle
    /\ SearchIdle
    /\ OcrIdle
    /\ ScorerIdle
    /\ GateIdle

\* one call of calculate_overall_confidence: it returns a report, or the
\* exception of its body leaves it
ConfScore ==
    /\ c_pc = "in"
    /\ LET exc == BodyRaises(c_in.ocr_confidence, c_in.search_results)
       IN  IF exc # "none" /\ ~except_Exception(exc)
           THEN /\ c_pc' = "raised"
                /\ UNCHANGED c_out
           ELSE /\ c_pc' = "returned"
                /\ c_out' = calculate_overall_confidence(
                                c_in.ocr_confidence, c_in.search_results,
                                c_in.original_query, c_in.similarity)
    /\ UNCHANGED <<c_in, dd_vars, f_vars, o_vars, t_vars, s_vars,
                   oc_vars, v_vars, g_vars>>

NextConf ==
    ConfScore

SpecConf == InitConf /\ [][NextConf]_vars

(***************************************************************************)
(* SpecSearch: a series of search() calls on one SearchService, with the   *)
(* search cache of services/cache_service.py                               *)
(***************************************************************************)
\* search() calls in one series
MaxCalls == 3

Queries == {"q1", "q2"}

Counts == {1, 2}

\* cache_key = f"{query}_{count}": the count is an integer, so the text
\* behind the last underscore gives it back and the key is the pair
cache_key(query, count) ==
    <<query, count>>

\* search_cache.get(key): the value stored under key, None if there is none
cache_get(cache, key) ==
    IF \E e \in cache : e.key = key
    THEN [found |-> TRUE, value |-> (CHOOSE e \in cache : e.key = key).value]
    ELSE [found |-> FALSE, value |-> SearchFailed]

\* search_cache.set(key, value): a key-value store without update in place
cache_set(cache, key, value) ==
    IF \E e \in cache : e.key = key THEN cache
    ELSE cache \cup {[key |-> key, value |-> value]}

\* what a provider answers to one request of a series
SearchAnswers ==
    {[ok |-> TRUE, hits |-> <<Hit("t1", "https://stackoverflow.com/q1")>>],
     [ok |-> TRUE, hits |-> <<Hit("t1", "https://stackoverflow.com/q1"),
                             Hit("t2", "https://example.com/s1")>>],
     [ok |-> FALSE, hits |-> <<>>]}

\* the network request a provider call makes, if it makes one
RequestOf(has_key, source, answer) ==
    IF has_key THEN <<[provider |-> source, ok |-> answer.ok]>> ELSE <<>>

\* search_searchapi (lines 50-122): mock data without the key, else the
\* cached dict, else the request, whose successful result is cached
search_searchapi(searchapi_key, cache, query, count, answer) ==
    LET cached_result == cache_get(cache, cache_key(query, count))
        result == search_provider(searchapi_key, "searchapi", answer, count)
    IN  IF searchapi_key /\ cached_result.found
        THEN [result |-> cached_result.value, cache |-> cache, requests |-> <<>>,
              cache_hit |-> TRUE]
        ELSE [result |-> result,
              cache |-> IF searchapi_key /\ result.success
                        THEN cache_set(cache, cache_key(query, count), result)
                        ELSE cache,
              requests |-> RequestOf(searchapi_key, "searchapi", answer),
              cache_hit |-> FALSE]

\* search_serpapi (lines 124-176): mock data without the key, else the
\* request; it neither reads nor writes the cache
search_serpapi(serp_api_key, cache, query, count, answer) ==
    [result |-> search_provider(serp_api_key, "serpapi", answer, count),
     cache |-> cache,
     requests |-> RequestOf(serp_api_key, "serpapi", answer),
     cache_hit |-> FALSE]

\* search (lines 178-201) with prefer_source = 'searchapi', as views.py
\* calls it: the second provider is called when the first did not succeed
search_call(keys, cache, query, count, first, second) ==
    LET one == IF keys.searchapi_key
               THEN search_searchapi(keys.searchapi_key, cache, query, count, first)
               ELSE search_serpapi(keys.serp_api_key, cache, query, count, first)
        two == IF keys.searchapi_key
               THEN search_serpapi(keys.serp_api_key, one.cache, query, count, second)
               ELSE search_searchapi(keys.searchapi_key, one.cache, query, count, second)
    IN  IF one.result.success THEN one
        ELSE [two EXCEPT !.requests = one.requests \o two.requests]

InitSearch ==
    /\ s_pc = "ready"
    /\ s_keys \in [searchapi_key : BOOLEAN, serp_api_key : BOOLEAN]
    /\ s_cache = {}
    /\ s_calls = 0
    /\ s_call = NoCall
    /\ DedupIdle
    /\ FetchIdle
    /\ OrchIdle
    /\ TrustIdle
    /\ ConfIdle
    /\ OcrIdle
    /\ ScorerIdle
    /\ GateIdle

\* one call search(query, count)
SearchCall ==
    /\ s_pc \in {"ready", "done"}
    /\ s_calls < MaxCalls
    /\ \E query \in Queries, count \in Counts, first \in SearchAnswers,
          second \in SearchAnswers :
          LET call == search_call(s_keys, s_cache, query, count, first, second)
          IN  /\ s_call' = [query |-> query, count |-> count,
                            requests |-> call.requests, cache_hit |-> call.cache_hit,
                            result |-> call.result]
              /\ s_cache' = call.cache
    /\ s_calls' = s_calls + 1
    /\ s_pc' = "done"
    /\ UNCHANGED <<s_keys, dd_vars, f_vars, o_vars, t_vars, c_vars,
                   oc_vars, v_vars, g_vars>>

NextSearch ==
    SearchCall

SpecSearch == InitSearch /\ [][NextSearch]_vars

(***************************************************************************)
(* SpecOcr: a series of extract_text_from_image calls on one OCRService    *)
(* (services/ocr_service.py)                                               *)
(***************************************************************************)
\* extract_text_from_image calls in one series
MaxOcrCalls == 2

\* settings.GOOGLE_VISION_API_KEY: not set, a service-account JSON, a text
\* that is no JSON
VisionKeys == {"", "valid", "invalid"}

\* the file at image_path: missing, not an image, an image with a text
Images ==
    {[exists |-> FALSE, readable |-> FALSE, text |-> ""],
     [exists |-> TRUE, readable |-> FALSE, text |-> ""]}
        \cup {[exists |-> TRUE, readable |-> TRUE, text |-> t] : t \in RawTexts}

\* _initialize_services (lines 27-56): EasyOCR is switched off, the Vision
\* client is built when the key parses; _initialized is never set
_initialize_services(service, env) ==
    [google_vision_available |->
         service.google_vision_available \/ env.vision_key = "valid",
     easyocr_available |-> FALSE]

\* a Tesseract fallback whose failure dict carries no confidence
TesseractFailureWithoutConfidence(image, tesseract_installed) ==
    IF image.readable /\ tesseract_installed
    THEN [success |-> TRUE, text |-> image.text, confidence |-> 7000,
          method |-> "tesseract",
          keys |-> {"success", "text", "confidence", "language", "method"}]
    ELSE [OcrFailure EXCEPT !.keys = {"success", "error", "text"}]

\* _fallback_tesseract (lines 253-273): the text with the estimated
\* confidence 70, or the failure dict when Image.open or pytesseract raises
_fallback_tesseract(image, tesseract_installed) ==
    IF image.readable /\ tesseract_installed
    THEN [success |-> TRUE, text |-> image.text, confidence |-> 7000,
          method |-> "tesseract",
          keys |-> {"success", "text", "confidence", "language", "method"}]
    ELSE OcrFailure

\* _extract_with_easyocr (lines 186-251) with reader = None: readtext raises
\* AttributeError and the Tesseract fallback answers (lines 211-214)
_extract_with_easyocr(image, tesseract_installed) ==
    _fallback_tesseract(image, tesseract_installed)

InitOcr ==
    /\ oc_pc = "ready"
    /\ oc_env \in [vision_key : VisionKeys, tesseract_installed : BOOLEAN]
    /\ oc_image = [exists |-> FALSE, readable |-> FALSE, text |-> ""]
    /\ oc_service = [google_vision_available |-> FALSE, easyocr_available |-> FALSE]
    /\ oc_cache = {}
    /\ oc_tried = <<>>
    /\ oc_result = OcrFailure
    /\ oc_calls = 0
    /\ DedupIdle
    /\ FetchIdle
    /\ OrchIdle
    /\ TrustIdle
    /\ ConfIdle
    /\ SearchIdle
    /\ ScorerIdle
    /\ GateIdle

\* lines 79-94: the call and its cache check; os.stat raises for a missing
\* file and the lookup is skipped
OcrCall ==
    /\ oc_pc \in {"ready", "returned"}
    /\ oc_calls < MaxOcrCalls
    /\ \E image \in Images :
          LET cached_result == cache_get(oc_cache, image)
          IN  /\ oc_image' = image
              /\ IF image.exists /\ cached_result.found
                 THEN /\ oc_result' = cached_result.value
                      /\ oc_pc' = "returned"
                 ELSE /\ oc_pc' = "initialize"
                      /\ UNCHANGED oc_result
    /\ oc_tried' = <<>>
    /\ oc_calls' = oc_calls + 1
    /\ UNCHANGED <<oc_env, oc_service, oc_cache, dd_vars, f_vars, o_vars, t_vars,
                   c_vars, s_vars, v_vars, g_vars>>

\* line 96
OcrInitialize ==
    /\ oc_pc = "initialize"
    /\ oc_service' = _initialize_services(oc_service, oc_env)
    /\ oc_pc' = "extract"
    /\ UNCHANGED <<oc_env, oc_image, oc_cache, oc_tried, oc_result, oc_calls,
                   dd_vars, f_vars, o_vars, t_vars, c_vars, s_vars, v_vars, g_vars>>

\* lines 97-130: EasyOCR when it is available (its result is cached), else
\* Tesseract; the Vision client is not used
OcrExtract ==
    /\ oc_pc = "extract"
    /\ IF oc_service.easyocr_available
       THEN LET result == _extract_with_easyocr(oc_image, oc_env.tesseract_installed)
            IN  /\ oc_result' = result
                /\ oc_tried' = <<"easyocr", "tesseract">>
                /\ oc_cache' = IF oc_image.exists
                               THEN cache_set(oc_cache, oc_image, result)
                               ELSE oc_cache
       ELSE /\ oc_result' = _fallback_tesseract(oc_image, oc_env.tesseract_installed)
            /\ oc_tried' = <<"tesseract">>
            /\ UNCHANGED oc_cache
    /\ oc_pc' = "returned"
    /\ UNCHANGED <<oc_env, oc_image, oc_service, oc_calls, dd_vars, f_vars, o_vars,
                   t_vars, c_vars, s_vars, v_vars, g_vars>>

NextOcr ==
    \/ OcrCall
    \/ OcrInitialize
    \/ OcrExtract

SpecOcr == InitOcr /\ [][NextOcr]_vars

(***************************************************************************)
(* SpecScorer: two requests in _calculate_match_quality on the one         *)
(* confidence_scorer of the process (services/confidence_service.py)       *)
(***************************************************************************)
\* the requests whose confidence futures run at the same time
Requesters == {1, 2}

\* all_texts of a request (line 91): whether there is a query and a result
\* with a snippet, the size of the vocabulary of the texts, and the average
\* cosine similarity their own TF-IDF weights give
Corpora ==
    [has_texts : BOOLEAN, n_features : {1, 2}, similarity : Similarities]

\* the transform step of self.vectorizer.fit_transform(all_texts)
\* (line 94) for a request whose texts are "mine", on a vectorizer whose idf
\* weights were fitted last to the texts "fitted": the similarities it can
\* lead to, -1 when it raises ValueError for a vocabulary of another size
TransformOutcomes(mine, fitted) ==
    IF fitted = mine THEN {mine.similarity}
    ELSE IF fitted.n_features # mine.n_features THEN {-1}
    ELSE Similarities

InitScorer ==
    /\ v_pc = [r \in Requesters |-> "called"]
    /\ v_in \in [Requesters -> Corpora]
    /\ v_fitted = 0
    /\ v_out = [r \in Requesters |-> -1]
    /\ DedupIdle
    /\ FetchIdle
    /\ OrchIdle
    /\ TrustIdle
    /\ ConfIdle
    /\ SearchIdle
    /\ OcrIdle
    /\ GateIdle

\* lines 77-88: without a query or a snippet 0.5 is returned and the
\* vectorizer is not used
MatchQualityCalled(r) ==
    /\ v_pc[r] = "called"
    /\ IF v_in[r].has_texts
       THEN /\ v_pc' = [v_pc EXCEPT ![r] = "fit"]
            /\ UNCHANGED v_out
       ELSE /\ v_pc' = [v_pc EXCEPT ![r] = "done"]
            /\ v_out' = [v_out EXCEPT ![r] = 5000]
    /\ UNCHANGED <<v_in, v_fitted, dd_vars, f_vars, o_vars, t_vars, c_vars, s_vars,
                   oc_vars, g_vars>>

\* line 94, first half of fit_transform: the vocabulary and the idf weights
\* of the shared vectorizer are set from this request's texts
VectorizerFit(r) ==
    /\ v_pc[r] = "fit"
    /\ v_fitted' = r
    /\ v_pc' = [v_pc EXCEPT ![r] = "transform"]
    /\ UNCHANGED <<v_in, v_out, dd_vars, f_vars, o_vars, t_vars, c_vars, s_vars,
                   oc_vars, g_vars>>

\* line 94, second half of fit_transform, and lines 96-109: the texts are
\* weighted with the idf weights the vectorizer holds now
VectorizerTransform(r) ==
    /\ v_pc[r] = "transform"
    /\ \E similarity \in TransformOutcomes(v_in[r], v_in[v_fitted]) :
          v_out' = [v_out EXCEPT ![r] =
                       _calculate_match_quality(<<ResultWithDomain("t1", <<>>)>>, "q",
                                                similarity)]
    /\ v_pc' = [v_pc EXCEPT ![r] = "done"]
    /\ UNCHANGED <<v_in, v_fitted, dd_vars, f_vars, o_vars, t_vars, c_vars, s_vars,
                   oc_vars, g_vars>>

NextScorer ==
    \E r \in Requesters :
        \/ MatchQualityCalled(r)
        \/ VectorizerFit(r)
        \/ VectorizerTransform(r)

SpecScorer == InitScorer /\ [][NextScorer]_vars

(***************************************************************************)
(* SpecGate: concurrent requests of one user at the feature gate of        *)
(* QuestionSolverView.post (decorators.py, models.py), after a usage reset *)
(***************************************************************************)
\* plan.ask_question_limit of the user's plan
AskQuestionLimit == 2

\* the requests of the user that are in flight
GateRequests == {1, 2, 3}

\* can_use_feature (models.py:199-208) for a finite limit
can_use_feature(used, limit) ==
    used < limit

InitGate ==
    /\ g_pc = [r \in GateRequests |-> "received"]
    /\ g_row = 0
    /\ g_local = [r \in GateRequests |-> 0]
    /\ g_admitted = 0
    /\ DedupIdle
    /\ FetchIdle
    /\ OrchIdle
    /\ TrustIdle
    /\ ConfIdle
    /\ SearchIdle
    /\ OcrIdle
    /\ ScorerIdle

\* decorators.py:104-108: get_or_create reads the row into the request's
\* own model instance
GateLoad(r) ==
    /\ g_pc[r] = "received"
    /\ g_local' = [g_local EXCEPT ![r] = g_row]
    /\ g_pc' = [g_pc EXCEPT ![r] = "loaded"]
    /\ UNCHANGED <<g_row, g_admitted, dd_vars, f_vars, o_vars, t_vars, c_vars,
                   s_vars, oc_vars, v_vars>>

\* decorators.py:116-130: the check on the instance; 402 when the limit is
\* reached
GateCheck(r) ==
    /\ g_pc[r] = "loaded"
    /\ g_pc' = [g_pc EXCEPT ![r] = IF can_use_feature(g_local[r], AskQuestionLimit)
                                   THEN "increment" ELSE "rejected"]
    /\ UNCHANGED <<g_row, g_local, g_admitted, dd_vars, f_vars, o_vars, t_vars,
                   c_vars, s_vars, oc_vars, v_vars>>

\* decorators.py:133-136 with increment_feature_usage (models.py:211-217):
\* the instance's counter + 1 is written to the row by save(), and post runs
GateIncrement(r) ==
    /\ g_pc[r] = "increment"
    /\ g_local' = [g_local EXCEPT ![r] = g_local[r] + 1]
    /\ g_row' = g_local[r] + 1
    /\ g_admitted' = g_admitted + 1
    /\ g_pc' = [g_pc EXCEPT ![r] = "admitted"]
    /\ UNCHANGED <<dd_vars, f_vars, o_vars, t_vars, c_vars, s_vars, oc_vars, v_vars>>

NextGate ==
    \E r \in GateRequests :
        \/ GateLoad(r)
        \/ GateCheck(r)
        \/ GateIncrement(r)

SpecGate == InitGate /\ [][NextGate]_vars

(***************************************************************************)
(* C1 - C6: properties of QuestionSolverView.post                          *)
(***************************************************************************)
OcrFailed ==
    /\ request.kind = "image"
    /\ stages # <<>>
    /\ ~ocr_result.success

\* C1: for every accepted request (an image or a text is present and
\* max_results reads as an integer) the response is a success unless the
\* OCR extractor reported success = false: a failure of translation, search,
\* page fetch, video lookup or confidence scoring still gives success = true.
C1_OnlyOcrFailureIsFatal ==
    (/\ pc = "responded"
     /\ request.kind # "none"
     /\ ParseMaxResults(request.max_results).ok)
        => (response.success \/ OcrFailed)

\* C2: an image whose OCR reports success = false is answered with a
\* server-error status and the error 'OCR extraction failed', and no stage
\* after the OCR has run.
C2_OcrFailureIsServerError ==
    (pc = "responded" /\ OcrFailed) =>
        /\ response.status >= 500
        /\ response.error = "OCR extraction failed"
        /\ stages = <<"ocr">>

\* C3: once the upload has been saved, the temporary file is gone from
\* storage when the request has been answered, on every exit path.
C3_TempFileRemoved ==
    (pc = "responded" /\ saved) => ~temp_file

\* the request was answered on the OCR-failure return, after the save
C3_Witness ==
    /\ pc = "responded"
    /\ saved
    /\ OcrFailed
    /\ ~temp_file

\* the value the future b returned is what the response carries for it
OutputInResponse(b) ==
    CASE b = "scrape" -> response.web_content = fut_value["scrape"]
      [] b = "youtube" -> response.youtube_videos = fut_value["youtube"].videos
      [] b = "confidence" -> response.confidence = fut_value["confidence"]

\* C4: when exactly one of the three futures ended with an exception, in
\* any completion order, the response is a success and carries the outputs
\* of the other two futures unchanged.
C4_FanoutIndependence ==
    (/\ pc = "responded"
     /\ Cardinality({b \in Branches : fut[b] = "raised"}) = 1)
        => /\ response.success
           /\ response.assembled
           /\ \A b \in Branches : fut[b] = "returned" => OutputInResponse(b)

\* C5: in an assembled response, a branch that failed contributes its
\* documented default: an empty web_content, an empty youtube_videos, and
\* for confidence the neutral report (overall_confidence 50, grade C,
\* reliability medium).
C5_FailedBranchDefault ==
    (pc = "responded" /\ response.assembled) =>
        /\ fut["scrape"] = "raised" => response.web_content = <<>>
        /\ fut["youtube"] = "raised" => response.youtube_videos = <<>>
        /\ fut["confidence"] = "raised" =>
              /\ "overall_confidence" \in response.confidence.keys
              /\ response.confidence.overall_confidence = 5000
              /\ response.confidence.grade = "C"
              /\ response.confidence.reliability = "medium"

\* C6: the wait on the fan-out is over as soon as its aggregate timeout has
\* fired, also with a branch still pending: the orchestrator can then
\* assemble and respond.
C6_WaitEndsAtTimeout ==
    (pc = "fanout" /\ timed_out) => FanoutOver

(***************************************************************************)
(* C7, C8: properties of fetch_multiple_urls                               *)
(***************************************************************************)
\* entries holds exactly one entry for each position of urls, matched by
\* the entry's url field
OneEntryPerUrl(entries, urls) ==
    /\ Len(entries) = Len(urls)
    /\ \E f \in [1..Len(urls) -> 1..Len(entries)] :
          /\ \A i, j \in 1..Len(urls) : i # j => f[i] # f[j]
          /\ \A i \in 1..Len(urls) : entries[f[i]].url = urls[i]

\* C7: the list fetch_multiple_urls returns has exactly one entry for every
\* input url, for every list of urls and every max_concurrent.
C7_OneEntryPerInputUrl ==
    f_pc = "returned" => OneEntryPerUrl(f_results, f_urls)

\* C8: when the batch timeout fires with fetches still pending, the call
\* returns a list where every pending url has an entry with success = false
\* and every fetch finished before keeps its own result.
C8_TimeoutReturnsPartial ==
    (f_timeout # {} /\ f_pc \in {"returned", "raised"}) =>
        /\ f_pc = "returned"
        /\ OneEntryPerUrl(f_results, urls_to_fetch(f_urls, f_max))
        /\ \A i \in f_timeout :
              \E k \in 1..Len(f_results) :
                  f_results[k] = [url |-> f_urls[i], success |-> FALSE]

(***************************************************************************)
(* C9, C10: properties of _deduplicate_results                             *)
(***************************************************************************)
\* C9: deduplicating the output of _deduplicate_results again gives that
\* same output: _deduplicate_results(_deduplicate_results(R)) =
\* _deduplicate_results(R) for every list R.
C9_DedupIdempotent ==
    dd_pc = "twice" => dd_twice = dd_once

\* a list with a repeated url and an empty url has been deduplicated twice
C9_Witness ==
    /\ dd_pc = "twice"
    /\ Len(dd_in) = 3
    /\ Len(dd_once) = 1
    /\ GetUrl(dd_in[1]) = GetUrl(dd_in[3])
    /\ GetUrl(dd_in[2]) = ""

\* out is in through the strictly increasing index map f
IsEmbedding(f, out, in) ==
    /\ \A i \in 1..Len(out) : in[f[i]] = out[i]
    /\ \A i, j \in 1..Len(out) : i < j => f[i] < f[j]

\* C10: the output has no two results with the same url, it is a
\* subsequence of the input in input order, and each kept result is the
\* first input result that has its url.
C10_DedupFirstWins ==
    dd_pc \in {"once", "twice"} =>
        /\ \A i, j \in 1..Len(dd_once) :
              i # j => GetUrl(dd_once[i]) # GetUrl(dd_once[j])
        /\ \E f \in [1..Len(dd_once) -> 1..Len(dd_in)] :
              /\ IsEmbedding(f, dd_once, dd_in)
              /\ \A i \in 1..Len(dd_once) :
                    \A k \in 1..(f[i] - 1) :
                        GetUrl(dd_in[k]) # GetUrl(dd_once[i])

\* two different results share a url and only the first of them is kept
C10_Witness ==
    /\ dd_pc = "once"
    /\ Len(dd_in) = 3
    /\ GetUrl(dd_in[1]) = GetUrl(dd_in[3])
    /\ dd_in[1] # dd_in[3]
    /\ GetUrl(dd_in[2]) \notin {"", GetUrl(dd_in[1])}
    /\ dd_once = <<dd_in[1], dd_in[2]>>

(***************************************************************************)
(* C11 - C13: trust scoring and the trust filter                           *)
(***************************************************************************)
\* the domain ends in the pieces of suffix
EndsWith(domain, suffix) ==
    /\ Len(domain) >= Len(suffix)
    /\ SubSeq(domain, Len(domain) - Len(suffix) + 1, Len(domain)) = suffix

\* the table of trust scores, first matching row
TableScore(domain) ==
    IF domain = <<>> THEN 0
    ELSE IF \E trusted \in trusted_domains : Lower(domain) = <<trusted>> THEN 90
    ELSE IF EndsWith(domain, <<".edu">>) THEN 80
    ELSE IF \/ EndsWith(domain, <<".gov">>)
            \/ (Len(domain) >= 2 /\ domain[Len(domain) - 1] = ".ac.") THEN 75
    ELSE IF \E keyword \in {"learn", "study", "education", "tutorial"} :
                Contains(Lower(domain), keyword) THEN 60
    ELSE 40

\* C11: the trust score of every filtered result is the first matching row
\* of the table (empty 0, in the trusted list 90, ends in .edu 80, ends in a
\* government or academic TLD 75, contains a learning keyword 60, else 40),
\* and two results of the same domain get the same score.
C11_TrustScoreTable ==
    t_pc = "filtered" =>
        \A i \in 1..Len(t_out.results) :
            /\ t_out.results[i].trust_score = TableScore(t_out.results[i].domain)
            /\ \A j \in 1..Len(t_out.results) :
                    t_out.results[j].domain = t_out.results[i].domain
                        => t_out.results[j].trust_score = t_out.results[i].trust_score

RECURSIVE CountTrusted(_)
CountTrusted(results) ==
    IF results = <<>> THEN 0
    ELSE (IF Head(results).is_trusted THEN 1 ELSE 0) + CountTrusted(Tail(results))

\* C12: after filter_trusted_domains every result carries the score of its
\* domain as trust_score, whatever it carried before, is_trusted is
\* trust_score > 50, and trusted_count counts the results with is_trusted.
C12_IsTrustedDerived ==
    t_pc = "filtered" =>
        /\ \A i \in 1..Len(t_out.results) :
              LET r == t_out.results[i]
              IN  /\ r.scored
                  /\ r.trust_score = _calculate_trust_score(r.domain)
                  /\ r.is_trusted = (r.trust_score > 50)
        /\ t_out.trusted_count = CountTrusted(t_out.results)

\* a mock result with its preset score of 50 went in and came out with the
\* score of example.com, next to a trusted result
C12_Witness ==
    /\ t_pc = "filtered"
    /\ \E i \in 1..Len(t_in) : t_in[i].scored /\ t_in[i].trust_score = 50
    /\ \E i \in 1..Len(t_out.results) :
          /\ t_out.results[i].title = "t1"
          /\ t_out.results[i].domain = <<"example", ".com">>
          /\ t_out.results[i].trust_score = 40
    /\ t_out.trusted_count >= 1

\* the same result, whatever trust_score and is_trusted it carries
SameResult(a, b) ==
    /\ a.title = b.title
    /\ a.url = b.url
    /\ a.snippet = b.snippet
    /\ a.domain = b.domain

\* C13: the output of filter_trusted_domains is a permutation of the input,
\* sorted by trust_score in descending order, and results of equal
\* trust_score keep their relative input order.
C13_SortedStablePermutation ==
    t_pc = "filtered" =>
        /\ Len(t_out.results) = Len(t_in)
        /\ \E p \in Perms(Len(t_in)) :
              /\ \A i \in 1..Len(t_in) : SameResult(t_out.results[i], t_in[p[i]])
              /\ \A i, j \in 1..Len(t_in) :
                    i < j =>
                        /\ t_out.results[i].trust_score >= t_out.results[j].trust_score
                        /\ t_out.results[i].trust_score = t_out.results[j].trust_score
                              => p[i] < p[j]

\* three results went in with the least trusted first and two different
\* results of equal score behind it
C13_Witness ==
    /\ t_pc = "filtered"
    /\ Len(t_in) = 3
    /\ t_in[1].domain = <<"example", ".com">>
    /\ t_in[2] = ResultWithDomain("t1", <<"nasa", ".gov">>)
    /\ t_in[3] = ResultWithDomain("t1", <<"ox", ".ac.", "uk">>)
    /\ t_out.results[1].domain = <<"nasa", ".gov">>
    /\ t_out.results[2].domain = <<"ox", ".ac.", "uk">>
    /\ t_out.results[3].domain = <<"example", ".com">>

(***************************************************************************)
(* C14 - C16: the confidence scorer                                        *)
(***************************************************************************)
\* ocr_confidence in 0..100, trust scores in 0..100, similarity in 0..1 (or
\* none, when the vectorizer raised)
ValidConfInput ==
    /\ c_in.ocr_confidence \in 0..10000
    /\ c_in.similarity \in -1..10000
    /\ \A i \in 1..Len(c_in.search_results) :
          c_in.search_results[i].scored
              => c_in.search_results[i].trust_score \in 0..100

\* (ocr_confidence/100)*30 + similarity*40 + (average trust_score/100)*30 as
\* the fraction ExactNum / ExactDen of a point
ExactDen ==
    100 * _calculate_domain_trust(c_in.search_results).den

ExactNum ==
    LET trust == _calculate_domain_trust(c_in.search_results)
        match == _calculate_match_quality(c_in.search_results, c_in.original_query,
                                          c_in.similarity)
    IN  (30 * c_in.ocr_confidence + 40 * match) * (trust.den \div 100)
            + 3000 * trust.num

GradeRank(grade) ==
    CASE grade = "F" -> 0 [] grade = "D" -> 1 [] grade = "C" -> 2
      [] grade = "B" -> 3 [] grade = "A" -> 4 [] grade = "A+" -> 5

ReliabilityRank(level) ==
    CASE level = "very_low" -> 0 [] level = "low" -> 1 [] level = "medium" -> 2
      [] level = "high" -> 3 [] level = "very_high" -> 4

\* C14: for valid inputs the reported overall_confidence lies in 0..100, and
\* grade and reliability are monotonic: no score below the one computed maps
\* to a higher grade or level, no score above it to a lower one.
C14_ConfidenceBoundsMonotonic ==
    (c_pc = "returned" /\ ValidConfInput) =>
        /\ c_out.overall_confidence \in 0..10000
        /\ \A s \in 0..100 :
              /\ s * ExactDen <= ExactNum =>
                    /\ GradeRank(_get_confidence_grade(s, 1)) <= GradeRank(c_out.grade)
                    /\ ReliabilityRank(_get_reliability_level(s, 1))
                          <= ReliabilityRank(c_out.reliability)
              /\ s * ExactDen >= ExactNum =>
                    /\ GradeRank(_get_confidence_grade(s, 1)) >= GradeRank(c_out.grade)
                    /\ ReliabilityRank(_get_reliability_level(s, 1))
                          >= ReliabilityRank(c_out.reliability)

\* the highest score: ocr_confidence 100, similarity 1, trust 100
C14_Witness ==
    /\ c_pc = "returned"
    /\ ValidConfInput
    /\ c_in.search_results # <<>>
    /\ c_out.overall_confidence = 10000
    /\ c_out.grade = "A+"
    /\ c_out.reliability = "very_high"

SumOfComponents ==
    c_out.components.ocr_confidence + c_out.components.match_quality
        + c_out.components.domain_trust

EmptyResultSetDefaults ==
    c_in.search_results = <<>> =>
        /\ c_out.components.match_quality = 2000
        /\ c_out.components.domain_trust = 1500
        /\ c_out.overall_confidence = c_out.components.ocr_confidence + 3500

C17_NoCredentialsStillSucceeds ==
    (/\ pc = "responded"
     /\ request.kind = "text"
     /\ ParseMaxResults(request.max_results).ok
     /\ ~settings.searchapi_key
     /\ ~settings.serp_api_key)
        => /\ search_result.success
           /\ search_result.results # <<>>
           /\ search_result.warning # ""
           /\ response.success
           /\ response.assembled

\* C18: search() never returns success = false with an empty results list;
\* when a provider request of the call failed, the result is a success
\* with a non-empty results list.
C18_FailureGivesDegradedResult ==
    s_pc = "done" =>
        /\ ~(~s_call.result.success /\ s_call.result.results = <<>>)
        /\ (\E i \in 1..Len(s_call.requests) : ~s_call.requests[i].ok)
              => (s_call.result.success /\ s_call.result.results # <<>>)

\* C19: a search() call issues at most one network request, and a request
\* goes to the secondary provider only when the credentials of the primary
\* are absent.
C19_AtMostOneRequest ==
    s_pc = "done" =>
        /\ Len(s_call.requests) <= 1
        /\ \A i \in 1..Len(s_call.requests) :
              s_call.requests[i].provider = "serpapi" => ~s_keys.searchapi_key

\* C20: when a search(q, c) call was served by a successful network request
\* of either provider, the next search(q, c) call issues no network request
\* and returns the result of the first.
C20_SecondCallServedFromCache ==
    [][(/\ s_pc = "done"
        /\ s_call.result.success
        /\ \E i \in 1..Len(s_call.requests) : s_call.requests[i].ok
        /\ s_pc' = "done"
        /\ s_calls' = s_calls + 1
        /\ s_call'.query = s_call.query
        /\ s_call'.count = s_call.count)
            => (/\ s_call'.requests = <<>>
                /\ s_call'.result = s_call.result)]_vars

(***************************************************************************)
(* C21 - C30                                                               *)
(***************************************************************************)
\* C21: a request with neither an image nor a text is answered with a
\* client-error status and no pipeline stage has run for it.
C21_NoInputRejected ==
    (pc = "responded" /\ request.kind = "none") =>
        /\ response.status \in 400..499
        /\ ~response.success
        /\ stages = <<>>
        /\ ~saved
        /\ ocr_result = NoOcr
        /\ translation_result = NoTranslation
        /\ filtered_results = NoFiltered
        /\ fut = NoFutures

\* the request without input was answered with 400
C21_Witness ==
    /\ pc = "responded"
    /\ request.kind = "none"
    /\ response.status = 400
    /\ response.error = "Please provide either an image or text query"

\* the stage has run for the request
StageRan(stage) ==
    \E i \in 1..Len(stages) : stages[i] = stage

\* the text handed to translate_to_english
CleanedInput ==
    clean_text(IF request.kind = "image" THEN ocr_result.text ELSE request.text)

\* C22: translate_to_english returns a dict; when the translation service
\* failed on a text, translated is the original text and translation_needed
\* is present and false; when the text is detected as English, translated
\* is the input and no translation is needed.
C22_TranslationFailsSoft ==
    StageRan("normalize") =>
        /\ (~translation_result.success /\ CleanedInput # "") =>
              /\ translation_result.translated = CleanedInput
              /\ "translation_needed" \in translation_result.keys
              /\ ~translation_result.translation_needed
        /\ (translation_result.success /\ translation_result.source_lang = "en") =>
              /\ translation_result.translated = CleanedInput
              /\ "translation_needed" \in translation_result.keys
              /\ ~translation_result.translation_needed

\* C23: extract_text_from_image returns a dict that has a success flag and
\* a confidence in 0..100, and a failure has success = false, confidence 0
\* and an empty text.
C23_OcrAlwaysReturnsResult ==
    /\ oc_pc \in {"ready", "initialize", "extract", "returned"}
    /\ oc_pc = "returned" =>
          /\ {"success", "confidence"} \subseteq oc_result.keys
          /\ oc_result.confidence \in 0..10000
          /\ ~oc_result.success => (oc_result.confidence = 0 /\ oc_result.text = "")

\* a file that is no image was handed in and the failure dict came back
C23_Witness ==
    /\ oc_pc = "returned"
    /\ oc_image.exists
    /\ ~oc_image.readable
    /\ oc_tried = <<"tesseract">>
    /\ ~oc_result.success
    /\ oc_result.confidence = 0

\* the backends the service holds as available
AvailableBackends ==
    {"tesseract"}
        \cup (IF oc_service.google_vision_available THEN {"google_vision"} ELSE {})
        \cup (IF oc_service.easyocr_available THEN {"easyocr"} ELSE {})

\* C24: extract_text_from_image returns a failure only after every
\* available backend has been tried.
C24_FailureAfterAllBackends ==
    (oc_pc = "returned" /\ ~oc_result.success) =>
        \A backend \in AvailableBackends :
            \E i \in 1..Len(oc_tried) : oc_tried[i] = backend

\* the grade and the reliability the threshold tables give to a score in
\* hundredths of a point
GradeOf(score) ==
    IF score >= 9000 THEN "A+"
    ELSE IF score >= 8000 THEN "A"
    ELSE IF score >= 7000 THEN "B"
    ELSE IF score >= 6000 THEN "C"
    ELSE IF score >= 5000 THEN "D"
    ELSE "F"

ReliabilityOf(score) ==
    IF score >= 8000 THEN "very_high"
    ELSE IF score >= 7000 THEN "high"
    ELSE IF score >= 6000 THEN "medium"
    ELSE IF score >= 4000 THEN "low"
    ELSE "very_low"

\* C25: in every report calculate_overall_confidence returns, grade and
\* reliability are what the threshold tables give to the overall_confidence
\* of that same report.
C25_GradeMatchesReportedScore ==
    c_pc = "returned" =>
        /\ c_out.grade = GradeOf(c_out.overall_confidence)
        /\ c_out.reliability = ReliabilityOf(c_out.overall_confidence)

\* the number of entries of stages that are the given stage
RECURSIVE TimesRan(_, _)
TimesRan(stage, n) ==
    IF n = 0 THEN 0
    ELSE TimesRan(stage, n - 1) + (IF stages[n] = stage THEN 1 ELSE 0)

\* C26: a solve request calls search_service.search exactly once, with the
\* first generated query and a count of at most 5; when that search fails
\* the pipeline goes on to filtering and fan-out with no results, no second
\* search is made, and the response has search_results.total = 0.
C26_OneSearchEmptyOnFailure ==
    /\ Len(search_calls) <= 1
    /\ Len(search_calls) = TimesRan("search", Len(stages))
    /\ StageRan("search") =>
          /\ Len(search_calls) = 1
          /\ search_calls[1].query = generate_search_queries(query_text, 3)[1]
          /\ search_calls[1].count <= 5
    /\ (StageRan("search") /\ ~search_result.success) =>
          /\ filtered_results.results = <<>>
          /\ StageRan("filter")
          /\ StageRan("fanout")
          /\ pc = "responded" =>
                /\ response.assembled
                /\ response.total = 0

\* the stages of a pipeline in the order of the code
StageOrder ==
    IF request.kind = "image"
    THEN <<"ocr", "normalize", "search", "filter", "fanout">>
    ELSE <<"normalize", "search", "filter", "fanout">>

\* C27: only a request with an image runs the OCR stage; a text request
\* never calls the OCR extractor, starts at normalization and has its
\* confidence scored with ocr_confidence = 100 (the OCR component is 30).
\* In both pipelines OCR, normalize, search and filter run in that order
\* and no fan-out branch starts before the filter has finished.
C27_TextSkipsOcrStagesInOrder ==
    /\ StageRan("ocr") => request.kind = "image"
    /\ request.kind = "text" =>
          /\ ocr_result = NoOcr
          /\ ~temp_file
          /\ stages # <<>> => stages[1] = "normalize"
          /\ fut["confidence"] = "returned" =>
                /\ fut_value["confidence"].components.ocr_confidence = 3000
                /\ confidence_data = fut_value["confidence"]
    /\ Len(stages) <= Len(StageOrder)
    /\ stages = SubSeq(StageOrder, 1, Len(stages))
    /\ fut # NoFutures => StageRan("filter")

\* a text request went through the four stages and its confidence future
\* returned a report scored with the OCR component 30
C27_Witness ==
    /\ request.kind = "text"
    /\ request.text = "2+2"
    /\ stages = <<"normalize", "search", "filter", "fanout">>
    /\ fut["confidence"] = "returned"
    /\ fut_value["confidence"].components.ocr_confidence = 3000
    /\ pc = "responded"
    /\ response.assembled

\* the match quality a request gets when no other request runs
MatchQualityAlone(corpus) ==
    IF corpus.has_texts THEN corpus.similarity ELSE 5000

\* C28: when two solve requests run at the same time, each gets the
\* confidence report it would get alone: the match quality computed for a
\* request does not depend on the other request's texts or timing.
C28_ConcurrentScoringIsolated ==
    \A r \in DOMAIN v_pc :
        v_pc[r] = "done" => v_out[r] = MatchQualityAlone(v_in[r])

\* C29: a result whose url is empty or missing is never in the output of
\* _deduplicate_results, also when it is the only result with that url, so
\* no result handed on to the trust filter has an empty url.
C29_EmptyUrlDropped ==
    dd_pc \in {"once", "twice"} =>
        /\ \A i \in 1..Len(dd_once) :
              /\ dd_once[i].url \notin {"", NoKey}
              /\ GetUrl(dd_once[i]) # ""
        /\ \A i \in 1..Len(dd_in) :
              GetUrl(dd_in[i]) = "" => \A j \in 1..Len(dd_once) : dd_once[j] # dd_in[i]

\* one result with an empty url, one without the key and one with a url
\* were deduplicated and only the last is kept
C29_Witness ==
    /\ dd_pc = "once"
    /\ Len(dd_in) = 3
    /\ dd_in[1].url = ""
    /\ dd_in[2].url = NoKey
    /\ dd_in[3].url \in Urls
    /\ dd_once = <<dd_in[3]>>

\* C30: for a finite limit L of ask_question, under every interleaving of
\* the user's concurrent requests after a usage reset, at most L requests
\* pass the feature gate, ask_question_used never exceeds L, and each
\* admitted request raises ask_question_used by exactly one.
C30_GateAdmitsAtMostLimit ==
    /\ g_admitted <= AskQuestionLimit
    /\ g_row <= AskQuestionLimit
    /\ g_row = g_admitted

====
